---- MODULE Spec2Model ----
(***************************************************************************)
(* Model of src/yingkui.py: a Streamlit script that is re-run from top to  *)
(* bottom on every user interaction.  Two functions are memoized by        *)
(* st.cache_data (fetch_usd_cny, ttl 3600 s; fetch_prices, ttl 60 s); the  *)
(* script body reads three pairs of number inputs, offers one refresh      *)
(* button, fetches prices and the rate, and renders either a table with    *)
(* three summary metrics or a warning.                                     *)
(*                                                                         *)
(* Units: money is in cents, share quantities in hundredths of a share,    *)
(* the exchange rate in hundredths of a yuan per dollar, time in seconds.  *)
(* Amounts are exact integers; a quotient is kept as the pair              *)
(* <<numerator, denominator>> so that no rounding is introduced.           *)
(* The CNY columns of a row (amount * rate, rounded) are not modelled.     *)
(***************************************************************************)
EXTENDS Integers, Sequences, FiniteSets

VARIABLES
    pc,            \* "idle": waiting for an event; "calc": a run stands at line 85
    priceCache,    \* st.cache_data entry of fetch_prices (one key: the ticker list)
    rateCache,     \* st.cache_data entry of fetch_usd_cny (no arguments)
    input_data,    \* the number-input widgets: ticker -> [qty, cost]
    prices,        \* line 84: what fetch_prices returned to this run
    rate,          \* line 85: what fetch_usd_cny returned to this run
    rows,          \* the rows of the rendered table
    total_cost_u, total_val_u, total_p_u, total_pct,
    view,          \* what the run rendered: "none", "table", "warning", "exception"
    exc,           \* exception that ended the run, "none" if it ran to the end
    clicked,       \* this run was started by the refresh button
    downloads,     \* yf.download calls made by this run
    contacted,     \* rate endpoints this run sent a GET to, in order
    answers,       \* what those endpoints answered
    dl_kind,       \* how the download that filled priceCache ended
    resolved,      \* tickers with a valid close in the download that filled priceCache
    dropped        \* the live cache entries this run's button press threw away

vars == <<pc, priceCache, rateCache, input_data, prices, rate, rows,
          total_cost_u, total_val_u, total_p_u, total_pct, view, exc,
          clicked, downloads, contacted, answers, dl_kind, resolved, dropped>>

----------------------------------------------------------------------------
(* Constants of the program *)

RATE_TTL == 3600
PRICE_TTL == 60
FALLBACK_RATE == 725

urls == << "https://open.er-api.com/v6/latest/USD",
           "https://api.exchangerate-api.com/v4/latest/USD" >>

\* keys of default_stocks in insertion order
tickers == << "RZLT", "RKLX", "CRWG" >>

Range(s) == { s[i] : i \in 1..Len(s) }

default_stocks ==
    [ t \in Range(tickers) |->
        CASE t = "RZLT" -> [qty |-> 20000, cost |-> 126]
          [] t = "RKLX" -> [qty |-> 2033,  cost |-> 4564]
          [] t = "CRWG" -> [qty |-> 14000, cost |-> 381] ]

----------------------------------------------------------------------------
(* Python values *)

None == [tag |-> "None", d |-> << >>]
Dict(f) == [tag |-> "dict", d |-> f]

\* truth value of `prices` in `if prices:`
Truthy(v) == v.tag = "dict" /\ DOMAIN v.d # {}

\* the literal 0 of lines 96 and 114
Zero == <<0, 1>>

----------------------------------------------------------------------------
(* st.cache_data: one entry per function, dropped when its ttl has elapsed *)

(* age: seconds since the entry was stored.  An age past the ttl is kept  *)
(* as the ttl: the entry is expired either way.                            *)

NoEntry == [present |-> FALSE, age |-> 0, val |-> None]
NoRate == [present |-> FALSE, age |-> 0, val |-> 0]

Entry(v) == [present |-> TRUE, age |-> 0, val |-> v]

\* a lookup finds the entry while less than ttl seconds have passed since it was stored
Hit(c, ttl) == c.present /\ c.age < ttl

\* variant: an entry is still served at exactly ttl seconds
PriceHitLate(c) == c.present /\ c.age <= PRICE_TTL

\* line 28: @st.cache_data(ttl=60)
PriceHit(c) == Hit(c, PRICE_TTL)

\* variant: the rate is cached with the ttl of the prices
RateHitShort(c) == Hit(c, PRICE_TTL)

\* line 11: @st.cache_data(ttl=3600)
RateHit(c) == Hit(c, RATE_TTL)

\* variant: a None result is not stored
StoreUnlessNone(c, v) == IF v.tag = "None" THEN c ELSE Entry(v)

\* the decorator stores whatever the function returned, None included
StorePrices(c, v) == Entry(v)

Older(c, d, ttl) == IF c.present
                    THEN [c EXCEPT !.age = IF c.age + d < ttl THEN c.age + d ELSE ttl]
                    ELSE c

----------------------------------------------------------------------------
(* The upstream price source: what yf.download(tickers, period="1d",       *)
(* interval="1m") can hand back.  A frame has an index of 1-minute bars    *)
(* and a Close column per ticker it knows; a close that is not available   *)
(* is NaN.                                                                 *)

NaN == -1

\* number of bars in a frame that has any
Bars == 2

\* a column without a valid close, one whose last bars are NaN, one that is full
Columns == { [i \in 1..Bars |-> NaN],
             [i \in 1..Bars |-> IF i = 1 THEN 100 ELSE NaN],
             [i \in 1..Bars |-> IF i < Bars THEN 100 ELSE 400] }

Raised == [raises |-> TRUE, index |-> 0, Close |-> [t \in {} |-> << >>]]

EmptyFrame == [raises |-> FALSE, index |-> 0,
               Close |-> [t \in Range(tickers) |-> << >>]]

Frames == { [raises |-> FALSE, index |-> Bars, Close |-> f] :
              f \in UNION { [S -> Columns] : S \in SUBSET Range(tickers) } }

DownloadOutcomes == {Raised, EmptyFrame} \cup Frames

\* DataFrame.empty: no rows or no columns
empty(df) == df.index = 0 \/ DOMAIN df.Close = {}

\* variant: the NaN closes are kept
dropna_kept(col) == col

\* Series.dropna()
dropna(col) == SelectSeq(col, LAMBDA x : x # NaN)

Put(d, k, v) == [x \in DOMAIN d \cup {k} |-> IF x = k THEN v ELSE d[x]]

\* lines 37-41: the loop over the tickers; a KeyError (no such column) or
\* an IndexError (iloc[-1] of an empty series) leaves through line 42
RECURSIVE PriceLoop(_, _, _, _)
PriceLoop(df, ts, i, current_prices) ==
    IF i > Len(ts) THEN Dict(current_prices)
    ELSE LET t == ts[i] IN
         IF t \notin DOMAIN df.Close THEN None
         ELSE LET valid == dropna(df.Close[t]) IN
              IF Len(valid) = 0 THEN None
              ELSE PriceLoop(df, ts, i + 1,
                             Put(current_prices, t, valid[Len(valid)]))

\* lines 29-44, the body that runs on a cache miss
fetch_prices(ts, dl) ==
    IF dl.raises THEN None
    ELSE IF empty(dl) THEN None
    ELSE PriceLoop(dl, ts, 1, [t \in {} |-> 0])

\* how the download ended, and the tickers for which it carries a valid close
Kind(dl) == IF dl.raises THEN "raise" ELSE IF empty(dl) THEN "empty" ELSE "frame"

Resolved(dl) == { t \in DOMAIN dl.Close : \E i \in 1..Len(dl.Close[t]) : dl.Close[t][i] # NaN }

----------------------------------------------------------------------------
(* The upstream rate endpoints: what requests.get(url, timeout=5) can do.  *)
(* exc: the call raised (connection error, timeout); json: the body parses *)
(* as JSON; hasCNY: the parsed body has rates.CNY.                         *)

Response(e, s, j, h, r) == [exc |-> e, status |-> s, json |-> j, hasCNY |-> h, CNY |-> r]

Responses == { Response(TRUE, 0, FALSE, FALSE, 0),
               Response(FALSE, 500, TRUE, TRUE, 710),
               Response(FALSE, 200, FALSE, FALSE, 0),
               Response(FALSE, 200, TRUE, FALSE, 0),
               Response(FALSE, 200, TRUE, TRUE, 710),
               Response(FALSE, 200, TRUE, TRUE, 730) }

UpTo(i) == [k \in 1..i |-> k]

\* lines 18-25: the loop over urls; resp[i] is the answer of urls[i].  The
\* bare except of line 23 catches whatever the try block raises, the failed
\* res.json()['rates']['CNY'] included
RECURSIVE RateLoop(_, _)
RateLoop(resp, i) ==
    IF i > Len(urls) THEN [rate |-> FALLBACK_RATE, asked |-> UpTo(Len(urls))]
    ELSE LET res == resp[i] IN
         IF res.exc THEN RateLoop(resp, i + 1)
         ELSE IF res.status = 200
              THEN IF res.json /\ res.hasCNY
                   THEN [rate |-> res.CNY, asked |-> UpTo(i)]
                   ELSE RateLoop(resp, i + 1)
              ELSE RateLoop(resp, i + 1)

\* the loop without the status check of line 21
RECURSIVE RateLoopAnyStatus(_, _)
RateLoopAnyStatus(resp, i) ==
    IF i > Len(urls) THEN [rate |-> FALLBACK_RATE, asked |-> UpTo(Len(urls))]
    ELSE LET res == resp[i] IN
         IF ~res.exc /\ res.json /\ res.hasCNY
         THEN [rate |-> res.CNY, asked |-> UpTo(i)]
         ELSE RateLoopAnyStatus(resp, i + 1)

fetch_usd_cny_any_status(resp) == RateLoopAnyStatus(resp, 1)

\* lines 12-25, the body that runs on a cache miss
fetch_usd_cny(resp) == RateLoop(resp, 1)

----------------------------------------------------------------------------
(* Lines 87-114: the calculation *)

\* Python's x / y: raises ZeroDivisionError when y is zero
Div(x, y) == IF y = 0 THEN [err |-> TRUE, q |-> Zero]
             ELSE [err |-> FALSE, q |-> <<x, y>>]

Times100(r) == [r EXCEPT !.q = <<r.q[1] * 100, r.q[2]>>]

\* variant: the percentage without the zero test
PctUnguarded(profit, cost) == Times100(Div(profit, cost))

\* lines 96 and 114: (profit / cost * 100) if cost != 0 else 0
Pct(profit, cost) ==
    IF cost # 0 THEN Times100(Div(profit, cost))
    ELSE [err |-> FALSE, q |-> Zero]

\* lines 92-96 and 101-110: one pass of the loop body for one entry
Row(ticker, vals, p) ==
    LET cost_u == vals.qty * vals.cost
        val_u == vals.qty * p
        profit_u == val_u - cost_u
    IN  [ticker |-> ticker, p |-> p, qty |-> vals.qty, cost |-> vals.cost,
         cost_u |-> cost_u, val_u |-> val_u, profit_u |-> profit_u,
         pct |-> Pct(profit_u, cost_u)]

\* variant: the cost is added to both totals
AccumulateCostTwice(acc, row) ==
    [acc EXCEPT !.rows = Append(@, [row EXCEPT !.pct = row.pct.q]),
                !.total_cost_u = @ + row.cost_u,
                !.total_val_u = @ + row.cost_u]

\* lines 98-99: the running totals after a row
Accumulate(acc, row) ==
    [acc EXCEPT !.rows = Append(@, [row EXCEPT !.pct = row.pct.q]),
                !.total_cost_u = @ + row.cost_u,
                !.total_val_u = @ + row.val_u]

\* lines 91-110: input_data.items() in insertion order; prices[ticker]
\* raises KeyError when the ticker has no price
RECURSIVE CalcLoop(_, _, _, _)
CalcLoop(in, pr, i, acc) ==
    IF i > Len(tickers) THEN acc
    ELSE LET ticker == tickers[i] IN
         IF ticker \notin DOMAIN pr THEN [acc EXCEPT !.exc = "KeyError"]
         ELSE LET row == Row(ticker, in[ticker], pr[ticker]) IN
              IF row.pct.err THEN [acc EXCEPT !.exc = "ZeroDivisionError"]
              ELSE CalcLoop(in, pr, i + 1, Accumulate(acc, row))

\* lines 113-114
Summary(acc) ==
    LET total_p == acc.total_val_u - acc.total_cost_u
        pct == Pct(total_p, acc.total_cost_u)
    IN  [rows |-> acc.rows, total_cost_u |-> acc.total_cost_u,
         total_val_u |-> acc.total_val_u, total_p_u |-> total_p,
         total_pct |-> pct.q,
         exc |-> IF pct.err THEN "ZeroDivisionError" ELSE "none"]

Blank(e) == [rows |-> << >>, total_cost_u |-> 0, total_val_u |-> 0,
             total_p_u |-> 0, total_pct |-> Zero, exc |-> e]

\* variant: the calculation without the test of line 87
CalculateUnguarded(in, pr) ==
    LET acc == CalcLoop(in, pr.d, 1, Blank("none")) IN
    IF acc.exc # "none" THEN Blank(acc.exc) ELSE Summary(acc)

\* lines 87-137: what a run shows for the prices and inputs it has
Calculate(in, pr) ==
    IF Truthy(pr)
    THEN LET acc == CalcLoop(in, pr.d, 1, Blank("none")) IN
         IF acc.exc # "none" THEN Blank(acc.exc) ELSE Summary(acc)
    ELSE Blank("none")

Shown(pr, out) ==
    IF out.exc # "none" THEN "exception"
    ELSE IF Truthy(pr) THEN "table" ELSE "warning"

----------------------------------------------------------------------------
(* The script *)

Init ==
    /\ pc = "idle"
    /\ priceCache = NoEntry
    /\ rateCache = NoRate
    /\ input_data = default_stocks
    /\ prices = None
    /\ rate = 0
    /\ rows = << >>
    /\ total_cost_u = 0
    /\ total_val_u = 0
    /\ total_p_u = 0
    /\ total_pct = Zero
    /\ view = "none"
    /\ exc = "none"
    /\ clicked = FALSE
    /\ downloads = 0
    /\ contacted = << >>
    /\ answers = << >>
    /\ dl_kind = "none"
    /\ resolved = {}
    /\ dropped = {}

\* a new run redraws the page from the top
ClearPage ==
    /\ rows' = << >>
    /\ total_cost_u' = 0
    /\ total_val_u' = 0
    /\ total_p_u' = 0
    /\ total_pct' = Zero
    /\ view' = "none"
    /\ exc' = "none"
    /\ rate' = 0
    /\ contacted' = << >>
    /\ answers' = << >>

\* variant: only the price cache is emptied
ClearOnlyPrices == [p |-> NoEntry, r |-> rateCache]

\* line 80: st.cache_data.clear() empties the cache of every cached function
ClearCaches == [p |-> NoEntry, r |-> NoRate]

\* the entries that have not expired
Live == (IF priceCache.present /\ priceCache.age < PRICE_TTL THEN {"prices"} ELSE {})
        \cup (IF rateCache.present /\ rateCache.age < RATE_TTL THEN {"rate"} ELSE {})

\* line 84 through the cache pcache; dl is what yf.download does if it is called
CallFetchPrices(pcache, dl) ==
    IF PriceHit(pcache)
    THEN /\ prices' = pcache.val
         /\ priceCache' = pcache
         /\ downloads' = 0
         /\ UNCHANGED <<dl_kind, resolved>>
    ELSE /\ prices' = fetch_prices(tickers, dl)
         /\ priceCache' = StorePrices(pcache, fetch_prices(tickers, dl))
         /\ downloads' = 1
         /\ dl_kind' = Kind(dl)
         /\ resolved' = Resolved(dl)

\* yf.download is called only on a miss
Drawn(pcache, D) == IF PriceHit(pcache) THEN {Raised} ELSE D

\* lines 47-84 with the button not pressed
Rerun(D) ==
    /\ pc = "idle"
    /\ \E dl \in Drawn(priceCache, D) : CallFetchPrices(priceCache, dl)
    /\ clicked' = FALSE
    /\ dropped' = {}
    /\ pc' = "calc"
    /\ ClearPage
    /\ UNCHANGED <<rateCache, input_data>>

\* lines 79-81: the button is pressed; the caches are cleared and st.rerun()
\* starts the script again, which runs lines 47-84 with the button released
Click(D) ==
    /\ pc = "idle"
    /\ \E dl \in Drawn(ClearCaches.p, D) : CallFetchPrices(ClearCaches.p, dl)
    /\ rateCache' = ClearCaches.r
    /\ clicked' = TRUE
    /\ dropped' = Live
    /\ pc' = "calc"
    /\ ClearPage
    /\ UNCHANGED input_data

QtyInputs(t) == {0, default_stocks[t].qty}
CostInputs(t) == {0, default_stocks[t].cost}

\* lines 74-76: a number input is changed, which re-runs the script
EditQty(D) ==
    /\ pc = "idle"
    /\ \E t \in Range(tickers) : \E q \in QtyInputs(t) :
          /\ q # input_data[t].qty
          /\ input_data' = [input_data EXCEPT ![t].qty = q]
    /\ \E dl \in Drawn(priceCache, D) : CallFetchPrices(priceCache, dl)
    /\ clicked' = FALSE
    /\ dropped' = {}
    /\ pc' = "calc"
    /\ ClearPage
    /\ UNCHANGED rateCache

EditCost(D) ==
    /\ pc = "idle"
    /\ \E t \in Range(tickers) : \E c \in CostInputs(t) :
          /\ c # input_data[t].cost
          /\ input_data' = [input_data EXCEPT ![t].cost = c]
    /\ \E dl \in Drawn(priceCache, D) : CallFetchPrices(priceCache, dl)
    /\ clicked' = FALSE
    /\ dropped' = {}
    /\ pc' = "calc"
    /\ ClearPage
    /\ UNCHANGED rateCache

\* line 85 through the cache; resp is what the endpoints answer if they are asked
CallFetchUsdCny(resp) ==
    IF RateHit(rateCache)
    THEN [rate |-> rateCache.val, cache |-> rateCache, asked |-> << >>]
    ELSE LET got == fetch_usd_cny(resp) IN
         [rate |-> got.rate,
          cache |-> Entry(got.rate),
          asked |-> got.asked]

\* the endpoints are asked only on a miss
Asked == IF RateHit(rateCache) THEN { [i \in 1..Len(urls) |-> Response(TRUE, 0, FALSE, FALSE, 0)] }
        ELSE [1..Len(urls) -> Responses]

\* lines 85-137
Finish ==
    /\ pc = "calc"
    /\ \E resp \in Asked :
          LET r == CallFetchUsdCny(resp)
              out == Calculate(input_data, prices)
          IN  /\ rate' = r.rate
              /\ rateCache' = r.cache
              /\ contacted' = r.asked
              /\ answers' = [i \in 1..Len(r.asked) |-> resp[i]]
              /\ rows' = out.rows
              /\ total_cost_u' = out.total_cost_u
              /\ total_val_u' = out.total_val_u
              /\ total_p_u' = out.total_p_u
              /\ total_pct' = out.total_pct
              /\ exc' = out.exc
              /\ view' = Shown(prices, out)
    /\ pc' = "idle"
    /\ UNCHANGED <<priceCache, input_data, prices, clicked, downloads, dl_kind, resolved, dropped>>

TickSteps == {59, 3541}

\* d seconds pass
Tick ==
    /\ \E d \in TickSteps :
          /\ priceCache' = Older(priceCache, d, PRICE_TTL)
          /\ rateCache' = Older(rateCache, d, RATE_TTL)
    /\ \/ priceCache' # priceCache
       \/ rateCache' # rateCache
    /\ UNCHANGED <<pc, input_data, prices, rate, rows, total_cost_u, total_val_u,
                   total_p_u, total_pct, view, exc, clicked, downloads,
                   contacted, answers, dl_kind, resolved, dropped>>

----------------------------------------------------------------------------
(* Specifications.  Spec lets time pass and keeps the inputs at their      *)
(* defaults, with every answer of the rate endpoints and a few downloads   *)
(* (raising, empty, full with either last close, one ticker all NaN, one   *)
(* column missing); SpecCalc keeps the clock still and lets the user edit  *)
(* the inputs, with every download of DownloadOutcomes.                    *)

ColumnsOf(c) == [raises |-> FALSE, index |-> Bars, Close |-> c]

SomeDownloads ==
    { Raised, EmptyFrame,
      ColumnsOf([t \in Range(tickers) |-> [i \in 1..Bars |-> IF i = 1 THEN 100 ELSE NaN]]),
      ColumnsOf([t \in Range(tickers) |-> [i \in 1..Bars |-> IF i < Bars THEN 100 ELSE 400]]),
      ColumnsOf([t \in Range(tickers) |->
                    [i \in 1..Bars |-> IF t = "RKLX" THEN NaN
                                       ELSE IF i < Bars THEN 100 ELSE 400]]),
      ColumnsOf([t \in {"RZLT", "RKLX"} |-> [i \in 1..Bars |-> 100]]) }

Next ==
    \/ Rerun(SomeDownloads)
    \/ Click(SomeDownloads)
    \/ Finish
    \/ Tick

Spec == Init /\ [][Next]_vars

NextCalc ==
    \/ Rerun(DownloadOutcomes)
    \/ Click(DownloadOutcomes)
    \/ EditQty(DownloadOutcomes)
    \/ EditCost(DownloadOutcomes)
    \/ Finish

SpecCalc == Init /\ [][NextCalc]_vars

----------------------------------------------------------------------------
(* Properties *)

\* a run passes line 84 / a run passes lines 85-137
FetchStep == pc = "idle" /\ pc' = "calc"
FinishStep == pc = "calc" /\ pc' = "idle"

Done == pc = "idle" /\ view # "none"

\* C1: a run that calls fetch_prices less than 60 s after the entry was
\* stored, and was not started by the refresh button, makes no yf.download
\* call and gets the stored result; a run that finds no entry, or one stored
\* 60 s or more ago, or that was started by the button, makes one call.
C1_PriceCacheWindow ==
    [][ FetchStep =>
          /\ (priceCache.present /\ priceCache.age < 60 /\ ~clicked')
                => (downloads' = 0 /\ prices' = priceCache.val)
          /\ (~priceCache.present \/ priceCache.age >= 60 \/ clicked')
                => (downloads' = 1 /\ priceCache'.present /\ priceCache'.age = 0) ]_vars

\* a run used the entry 59 s after it was stored
C1_Witness ==
    /\ pc = "calc" /\ ~clicked /\ downloads = 0
    /\ priceCache.present /\ priceCache.age = 59
    /\ prices = priceCache.val

\* C2: a press of the refresh button empties both caches whatever their age;
\* the run it starts calls yf.download and then the rate endpoints again,
\* and what it shows is what those calls returned.
C2_RefreshClearsBoth ==
    [][ /\ (FetchStep /\ clicked')
            => /\ downloads' = 1
               /\ ~rateCache'.present
               /\ priceCache'.present /\ priceCache'.age = 0
               /\ prices' = priceCache'.val
        /\ (FinishStep /\ clicked)
            => /\ Len(contacted') >= 1
               /\ rateCache'.present /\ rateCache'.age = 0
               /\ rate' = rateCache'.val
               /\ \A i \in 1..Len(rows') : rows'[i].p = prices.d[rows'[i].ticker] ]_vars

\* the button was pressed while both entries were live, and the run finished
C2_Witness ==
    /\ Done /\ clicked /\ dropped = {"prices", "rate"}
    /\ downloads = 1 /\ Len(contacted) >= 1 /\ view = "table"

\* C3: a run that calls fetch_usd_cny less than 3600 s after the entry was
\* stored contacts no endpoint and gets the stored rate.
C3_RateCacheWindow ==
    [][ (FinishStep /\ rateCache.present /\ rateCache.age < 3600)
          => (contacted' = << >> /\ rate' = rateCache.val /\ rateCache' = rateCache) ]_vars

\* a run used the rate 3599 s after it was stored
C3_Witness ==
    /\ Done /\ contacted = << >>
    /\ rateCache.present /\ rateCache.age = 3599 /\ rate = rateCache.val

\* an answer fetch_usd_cny can return from
Good(a) == ~a.exc /\ a.status = 200 /\ a.json /\ a.hasCNY

\* C4: on a miss the endpoints are asked in list order; every answer before
\* the last one asked was a failure; if the last one is status 200 with
\* rates.CNY the rate is its CNY value; otherwise every endpoint was asked
\* and the rate is 7.25; the run is not ended by an exception.
C4_RateFallback ==
    (pc = "idle" /\ contacted # << >>) =>
        LET n == Len(contacted) IN
        /\ n <= Len(urls) /\ Len(answers) = n
        /\ \A i \in 1..n : contacted[i] = i
        /\ \A i \in 1..(n - 1) : ~Good(answers[i])
        /\ Good(answers[n]) => rate = answers[n].CNY
        /\ ~Good(answers[n]) => (n = Len(urls) /\ rate = 725)
        /\ exc = "none"

\* the first endpoint answered 500, the second 200 with an unparsable body
C4_Witness ==
    /\ pc = "idle" /\ Len(contacted) = 2
    /\ ~answers[1].exc /\ answers[1].status = 500
    /\ ~answers[2].exc /\ answers[2].status = 200 /\ ~answers[2].json
    /\ rate = 725

RowTickers == { rows[i].ticker : i \in 1..Len(rows) }

\* C5: when the download resolved some tickers and not others, the run shows
\* a table with exactly the resolved tickers.
C5_PartialData ==
    (Done /\ dl_kind = "frame" /\ resolved # {} /\ resolved # Range(tickers))
        => (view = "table" /\ RowTickers = resolved)

\* C6: when the download raised or came back empty, fetch_prices returned
\* None, and the run shows the warning and neither table nor metrics, without
\* an exception.
C6_BatchFailure ==
    (Done /\ dl_kind \in {"raise", "empty"}) =>
        /\ prices.tag = "None"
        /\ view = "warning"
        /\ rows = << >>
        /\ total_val_u = 0 /\ total_cost_u = 0 /\ total_p_u = 0
        /\ exc = "none"

C6_Witness == Done /\ dl_kind = "raise" /\ view = "warning"

\* the sum of f[1] .. f[n]
RECURSIVE SumTo(_, _)
SumTo(f, n) == IF n = 0 THEN 0 ELSE f[n] + SumTo(f, n - 1)

\* C7: in a table, every row's value is qty x price of that row, the total
\* value is the sum of the rows' qty x price, the total cost the sum of the
\* rows' qty x cost, and the total profit is total value minus total cost.
C7_Totals ==
    view = "table" =>
        /\ \A i \in 1..Len(rows) :
              /\ rows[i].qty = input_data[rows[i].ticker].qty
              /\ rows[i].cost = input_data[rows[i].ticker].cost
              /\ rows[i].val_u = rows[i].qty * rows[i].p
        /\ total_val_u = SumTo([i \in 1..Len(rows) |-> rows[i].qty * rows[i].p], Len(rows))
        /\ total_cost_u = SumTo([i \in 1..Len(rows) |-> rows[i].qty * rows[i].cost], Len(rows))
        /\ total_p_u = total_val_u - total_cost_u

\* a table with one position edited down to nothing, at a loss overall
C7_Witness ==
    /\ view = "table" /\ Len(rows) = 3
    /\ rows[1].qty = 0 /\ rows[2].qty # 0
    /\ total_val_u > 0 /\ total_p_u < 0

\* C8: no run is ended by a division by zero; in a table, a row whose
\* qty x cost is zero has percent 0, and a zero total cost gives total
\* percent 0.
C8_ZeroCost ==
    /\ exc # "ZeroDivisionError"
    /\ view = "table" =>
          /\ \A i \in 1..Len(rows) :
                (rows[i].qty * rows[i].cost = 0) => rows[i].pct = <<0, 1>>
          /\ total_cost_u = 0 => total_pct = <<0, 1>>

\* a table with a zero cost on a held position, a zero quantity at a
\* nonzero cost, and a zero total cost
C8_Witness ==
    /\ view = "table" /\ total_cost_u = 0 /\ total_val_u > 0
    /\ \E i \in 1..Len(rows) : rows[i].cost = 0 /\ rows[i].qty # 0
    /\ \E i \in 1..Len(rows) : rows[i].qty = 0 /\ rows[i].cost # 0

\* C9: row i is the i-th portfolio entry and carries the price fetch_prices
\* returned for it, a valid close of the download; a ticker the download did
\* not resolve has no row; a finished run shows the table with one row per
\* entry or the warning with none.
C9_RowsAreEntries ==
    /\ Len(rows) <= Len(tickers)
    /\ \A i \in 1..Len(rows) :
          /\ rows[i].ticker = tickers[i]
          /\ rows[i].ticker \in DOMAIN default_stocks
          /\ prices.tag = "dict"
          /\ rows[i].ticker \in DOMAIN prices.d
          /\ rows[i].p = prices.d[rows[i].ticker]
          /\ rows[i].p # NaN
          /\ rows[i].ticker \in resolved
    /\ Done => \/ view = "table" /\ Len(rows) = Len(tickers)
               \/ view = "warning" /\ rows = << >>

\* one run showed the table, the download behind it resolved every ticker
C9_Witness ==
    /\ Done /\ view = "table" /\ Len(rows) = 3
    /\ resolved = Range(tickers) /\ rows[2].ticker = "RKLX" /\ rows[2].p = 400

\* C10: a None from a failed price fetch and a 7.25 from a rate fetch in
\* which every endpoint failed are stored like any other result: a
\* run within 60 s of a failed price fetch makes no download and shows the
\* warning; a run within 3600 s of a rate fetch that fell back to 7.25 asks
\* no endpoint and uses 7.25; an upstream call is made only when the entry
\* is missing or expired (a button press empties both).
C10_FailureMemoized ==
    [][ /\ (FetchStep /\ downloads' = 1 /\ prices'.tag = "None")
            => (priceCache'.present /\ priceCache'.age = 0
                /\ priceCache'.val.tag = "None")
        /\ (FinishStep /\ contacted' # << >> /\ rate' = 725)
            => (rateCache'.present /\ rateCache'.age = 0 /\ rateCache'.val = 725)
        /\ (FetchStep /\ ~clicked' /\ priceCache.present /\ priceCache.age < 60
               /\ priceCache.val.tag = "None")
            => (downloads' = 0 /\ prices'.tag = "None")
        /\ (FinishStep /\ prices.tag = "None") => view' = "warning"
        /\ (FinishStep /\ rateCache.present /\ rateCache.age < 3600
               /\ rateCache.val = 725)
            => (contacted' = << >> /\ rate' = 725)
        /\ (FetchStep /\ downloads' = 1)
            => (clicked' \/ ~priceCache.present \/ priceCache.age >= 60)
        /\ (FinishStep /\ contacted' # << >>)
            => (~rateCache.present \/ rateCache.age >= 3600) ]_vars

\* 59 s after a failed download and a fallen-back rate, a run reused both
C10_Witness ==
    /\ Done /\ ~clicked /\ downloads = 0 /\ contacted = << >>
    /\ prices.tag = "None" /\ view = "warning" /\ rate = 725
    /\ priceCache.age = 59 /\ rateCache.age = 59

====
